---- MODULE Spec2Model ----
(***************************************************************************)
(* Ownership protocol of the FFI byte buffer utilities (src/src/lib.rs).   *)
(*                                                                         *)
(* The heap is a finite set of addresses, each holding at most one live    *)
(* allocation.  Rust-managed values (Box<[u8]>, String) are in `owned`;    *)
(* raw (pointer, length) pairs held by the FFI host are in `handles`.      *)
(* Every action is one whole call of a library function, or one step of    *)
(* the caller (creating a value, dropping a value, writing through a raw   *)
(* pointer).  `limit` is the number of octets the allocator can serve,     *)
(* `last` records the arguments and the result of the last call, and       *)
(* `fatal` records a panic, an abort or a crash of the process.            *)
(***************************************************************************)
EXTENDS Integers, Sequences, FiniteSets

VARIABLES heap, limit, owned, handles, fatal, last

vars == <<heap, limit, owned, handles, fatal, last>>

----------------------------------------------------------------------------
(* Bounds of the model *)

\* width of usize in bits (64 on the real targets)
WordBits == 3
\* number of heap addresses the allocator can hand out
MaxAllocs == 2
\* number of octets the allocator can have live at once
HeapBytes == 2
\* longest byte sequence the native side creates as a Box<[u8]> or a String
MaxLen == 1
\* longest buffer or text of the round trips
TextLen == 3
\* most managed values and raw handles around at once
MaxObjects == 2

----------------------------------------------------------------------------
(* Integers and pointers *)

RECURSIVE Pow2(_)
Pow2(n) == IF n = 0 THEN 1 ELSE 2 * Pow2(n - 1)

\* usize::MAX and isize::MAX
UsizeMax == Pow2(WordBits) - 1
IsizeMax == Pow2(WordBits - 1) - 1

\* std::ptr::null() / null_mut()
Null == 0
\* NonNull::<u8>::dangling(): the address align_of::<u8>(), never allocated
Dangling == 1
\* the addresses the global allocator returns
HeapBase == 2
Addr == HeapBase .. (HeapBase + MaxAllocs - 1)
Ptr == {Null, Dangling} \cup Addr

\* octet values that occur: NUL, space, 'h', and U+00A0 encoded as C2 A0
Byte == {0, 32, 104, 194, 160}

RECURSIVE Zeros(_)
Zeros(n) == IF n = 0 THEN <<>> ELSE <<0>> \o Zeros(n - 1)

Prefix(s, n) == SubSeq(s, 1, n)

RECURSIVE SeqsUpTo(_, _)
SeqsUpTo(S, n) ==
    IF n = 0 THEN {<<>>}
    ELSE LET shorter == SeqsUpTo(S, n - 1)
         IN  shorter \cup {Append(s, b) : s \in {t \in shorter : Len(t) = n - 1}, b \in S}

----------------------------------------------------------------------------
(* The global allocator *)

Free == [live |-> FALSE, data |-> <<>>]
Block(bytes) == [live |-> TRUE, data |-> bytes]

LiveAddrs == {a \in Addr : heap[a].live}
FreeAddrs == Addr \ LiveAddrs

RECURSIVE SumSizes(_)
SumSizes(S) ==
    IF S = {} THEN 0
    ELSE LET a == CHOOSE x \in S : TRUE
         IN  Len(heap[a].data) + SumSizes(S \ {a})

UsedBytes == SumSizes(LiveAddrs)

\* the allocator serves a request of n octets iff an address and n octets are left
CanAlloc(n) == FreeAddrs # {} /\ UsedBytes + n <= limit

\* heap after dealloc of each address in S
Dealloc(h, S) == [a \in Addr |-> IF a \in S THEN Free ELSE h[a]]

----------------------------------------------------------------------------
(* Values *)

\* a Rust-managed value: a Box<[u8]> (cap = len) or a String (cap >= len)
Value(kind, ptr, len, cap) == [kind |-> kind, ptr |-> ptr, len |-> len, cap |-> cap]
EmptyBox == Value("box", Dangling, 0, 0)
EmptyString == Value("string", Dangling, 0, 0)

\* the value owns a heap allocation
HasAlloc(v) == v.cap > 0 /\ v.ptr \in Addr

\* the octets a value holds in heap h (unreadable when its pointer is not an allocation)
ContentIn(h, v) ==
    IF v.ptr \in Addr /\ h[v.ptr].live /\ Len(h[v.ptr].data) >= v.len
    THEN Prefix(h[v.ptr].data, v.len)
    ELSE <<>>
Content(v) == ContentIn(heap, v)

\* a raw handle held by the host; `from`, `src` and `clean` are history:
\* the call that produced it, the octets it had then, and whether the host
\* has not written through it since
Handle(ptr, len, from, src) ==
    [ptr |-> ptr, len |-> len, from |-> from, src |-> src, clean |-> TRUE]

\* Only what holds or refers to memory is kept: a value of capacity 0 owns
\* nothing and a pair of length 0 refers to nothing, and the caller and the
\* host can make up either at any time
Own(values, v) == IF v.cap = 0 THEN values ELSE values \cup {v}
Hold(pairs, h) == IF h.len = 0 THEN pairs ELSE pairs \cup {h}

\* the record of a call
Call(op, inPtr, inLen, inData, trim, outPtr, outLen, outData, from, clean, allocs, frees) ==
    [op |-> op, inPtr |-> inPtr, inLen |-> inLen, inData |-> inData, trim |-> trim,
     outPtr |-> outPtr, outLen |-> outLen, outData |-> outData,
     from |-> from, clean |-> clean, allocs |-> allocs, frees |-> frees]
Step(op) == Call(op, Null, 0, <<>>, FALSE, Null, 0, <<>>, "", FALSE, 0, 0)

Running == fatal = "none"

\* the process ends (a panic that is not caught, an abort, a crash): its
\* memory goes back to the system with everything that lived in it
Dies(cause) ==
    /\ fatal' = cause
    /\ heap' = [a \in Addr |-> Free]
    /\ owned' = {}
    /\ handles' = {}

Init ==
    /\ heap = [a \in Addr |-> Free]
    /\ limit = HeapBytes
    /\ owned = {}
    /\ handles = {}
    /\ fatal = "none"
    /\ last = Step("init")

----------------------------------------------------------------------------
(* new_boxed_byte_slice_buffer_raw *)

\* room for one more managed value or raw handle
Room == Cardinality(owned) + Cardinality(handles) < MaxObjects

\* no null pointer of a failed allocation is around, as a handle or in a Box;
\* the model follows one failed allocation at a time
NoNullAround == (\A h \in handles : h.ptr # Null) /\ (\A v \in owned : v.ptr # Null)

\* as LayoutArrayOk, with usize::MAX for isize::MAX
LayoutArrayOkUsize(length) == length <= UsizeMax

\* Layout::array::<u8>(length) is Ok iff length <= isize::MAX
LayoutArrayOk(length) == length <= IsizeMax

AllocateZeroed(length) ==
    /\ Running
    /\ length > 0 => Room
    /\ IF length = 0
       THEN /\ last' = Call("allocate_zeroed", Null, 0, <<>>, FALSE, Null, 0, <<>>, "", TRUE, 0, 0)
            /\ UNCHANGED <<heap, limit, owned, handles, fatal>>
       ELSE IF ~LayoutArrayOk(length)
       THEN \* panic!("capacity overflow")
            /\ Dies("capacity overflow")
            /\ last' = Call("allocate_zeroed", Null, length, <<>>, FALSE, Null, 0, <<>>, "", TRUE, 0, 0)
            /\ UNCHANGED limit
       ELSE IF CanAlloc(length)
       THEN \E a \in FreeAddrs :
            /\ heap' = [heap EXCEPT ![a] = Block(Zeros(length))]
            /\ handles' = handles \cup {Handle(a, length, "allocate_zeroed", Zeros(length))}
            /\ last' = Call("allocate_zeroed", Null, length, <<>>, FALSE, a, length, <<>>, "", TRUE, 1, 0)
            /\ UNCHANGED <<limit, owned, fatal>>
       ELSE \* alloc_zeroed returns null and the null pointer is returned as it is
            /\ NoNullAround
            /\ handles' = handles \cup {Handle(Null, length, "allocate_zeroed", Zeros(length))}
            /\ last' = Call("allocate_zeroed", Null, length, <<>>, FALSE, Null, length, <<>>, "", TRUE, 1, 0)
            /\ UNCHANGED <<heap, limit, owned, fatal>>

----------------------------------------------------------------------------
(* UTF-8 and str::trim *)

\* width in octets of the character whose first octet is b
CharWidth(b) == IF b < 128 THEN 1 ELSE IF b < 224 THEN 2 ELSE IF b < 240 THEN 3 ELSE 4
IsCont(b) == b >= 128 /\ b < 192
IsLead(b) == b < 128 \/ (b >= 194 /\ b < 245)

\* the code point of the character that starts at octet i of s
CodePoint(s, i) ==
    LET w == CharWidth(s[i])
    IN  IF w = 1 THEN s[i]
        ELSE IF w = 2 THEN (s[i] - 192) * 64 + (s[i + 1] - 128)
        ELSE IF w = 3 THEN (s[i] - 224) * 4096 + (s[i + 1] - 128) * 64 + (s[i + 2] - 128)
        ELSE (s[i] - 240) * 262144 + (s[i + 1] - 128) * 4096
             + (s[i + 2] - 128) * 64 + (s[i + 3] - 128)

RECURSIVE IsUtf8From(_, _)
IsUtf8From(s, i) ==
    IF i > Len(s) THEN TRUE
    ELSE LET w == CharWidth(s[i])
         IN  /\ IsLead(s[i])
             /\ i + w - 1 <= Len(s)
             /\ \A k \in (i + 1) .. (i + w - 1) : IsCont(s[k])
             /\ IsUtf8From(s, i + w)
IsUtf8(s) == IsUtf8From(s, 1)

\* char::is_whitespace: the code points with the White_Space property
WhiteSpace ==
    (9 .. 13) \cup {32, 133, 160, 5760} \cup (8192 .. 8202)
    \cup {8232, 8233, 8239, 8287, 12288}
IsWhitespace(c) == c \in WhiteSpace

\* index of the first octet of the first character at or after i that is not whitespace
RECURSIVE TrimStartIdx(_, _)
TrimStartIdx(s, i) ==
    IF i > Len(s) THEN i
    ELSE IF IsWhitespace(CodePoint(s, i)) THEN TrimStartIdx(s, i + CharWidth(s[i]))
    ELSE i

\* index of the first octet of the character whose last octet is at j
RECURSIVE CharStart(_, _)
CharStart(s, j) == IF j > 1 /\ IsCont(s[j]) THEN CharStart(s, j - 1) ELSE j

\* index of the last octet of the last character in lo..j that is not whitespace
RECURSIVE TrimEndIdx(_, _, _)
TrimEndIdx(s, lo, j) ==
    IF j < lo THEN j
    ELSE LET k == CharStart(s, j)
         IN  IF IsWhitespace(CodePoint(s, k)) THEN TrimEndIdx(s, lo, k - 1) ELSE j

\* str::trim
Trim(s) ==
    LET lo == TrimStartIdx(s, 1)
        hi == TrimEndIdx(s, lo, Len(s))
    IN  SubSeq(s, lo, hi)

----------------------------------------------------------------------------
(* The native caller: creating and dropping managed values *)

\* the octets the native side and the host put into buffers of the protocol
HostBytes == {32, 104}
Buffers == SeqsUpTo(HostBytes, MaxLen) \ {<<>>}
Texts == {s \in SeqsUpTo(HostBytes, MaxLen) : IsUtf8(s)}

\* the allocations freed when v is dropped
DropFrees(v) == IF HasAlloc(v) THEN {v.ptr} ELSE {}

\* a non-empty Box<[u8]> with the given octets comes into existence
NewBox(bytes) ==
    /\ Running
    /\ Room
    /\ CanAlloc(Len(bytes))
    /\ \E a \in FreeAddrs :
       /\ heap' = [heap EXCEPT ![a] = Block(bytes)]
       /\ owned' = owned \cup {Value("box", a, Len(bytes), Len(bytes))}
    /\ last' = Step("new_box")
    /\ UNCHANGED <<limit, handles, fatal>>

\* a String with the given text and a capacity > 0 comes into existence
NewString(text, cap) ==
    /\ Running
    /\ Room
    /\ cap > 0
    /\ cap >= Len(text)
    /\ CanAlloc(cap)
    /\ \E a \in FreeAddrs :
       /\ heap' = [heap EXCEPT ![a] = Block(text \o Zeros(cap - Len(text)))]
       /\ owned' = owned \cup {Value("string", a, Len(text), cap)}
    /\ last' = Step("new_string")
    /\ UNCHANGED <<limit, handles, fatal>>

\* a managed value goes out of scope.  Dropping a non-empty Box whose pointer
\* is null passes null to dealloc: undefined, a no-op or a crash in practice
Drop(v) ==
    /\ Running
    /\ v \in owned
    /\ last' = Step("drop")
    /\ UNCHANGED limit
    /\ \/ /\ owned' = owned \ {v}
          /\ heap' = Dealloc(heap, DropFrees(v))
          /\ UNCHANGED <<handles, fatal>>
       \/ /\ v.ptr \notin Addr
          /\ Dies("segfault")

----------------------------------------------------------------------------
(* into_boxed_byte_slice_raw and string_into_boxed_byte_slice_raw *)

\* as IntoBoxedByteSliceRaw, without ManuallyDrop: src is dropped on return
IntoRawDropsSource(src) ==
    IF src.len = 0
    THEN [ptr |-> Null, len |-> 0, freed |-> DropFrees(src)]
    ELSE [ptr |-> src.ptr, len |-> src.len, freed |-> DropFrees(src)]

\* as IntoBoxedByteSliceRaw, with the length one short
IntoRawShort(src) ==
    IF src.len = 0
    THEN [ptr |-> Null, len |-> 0, freed |-> DropFrees(src)]
    ELSE [ptr |-> src.ptr, len |-> src.len - 1, freed |-> {}]

\* as IntoBoxedByteSliceRaw, without the test for the empty Box: src.as_ptr()
IntoRawDangling(src) ==
    [ptr |-> src.ptr, len |-> src.len, freed |-> IF src.len = 0 THEN DropFrees(src) ELSE {}]

\* the pair returned for the Box src, and the allocations freed by the call
IntoBoxedByteSliceRaw(src) ==
    IF src.len = 0
    THEN [ptr |-> Null, len |-> 0, freed |-> DropFrees(src)]
    ELSE \* ManuallyDrop::new(src): src is not dropped
         [ptr |-> src.ptr, len |-> src.len, freed |-> {}]

ReleaseBuffer(v) ==
    /\ Running
    /\ v \in owned \cup {EmptyBox}
    /\ v.kind = "box"
    /\ LET r == IntoBoxedByteSliceRaw(v)
           h == Handle(r.ptr, r.len, "release_buffer", Content(v))
       IN  /\ heap' = Dealloc(heap, r.freed)
           /\ owned' = owned \ {v}
           /\ handles' = Hold(handles, h)
           /\ last' = Call("release_buffer", v.ptr, v.len, Content(v), FALSE,
                           r.ptr, r.len, <<>>, "", TRUE, 0, Cardinality(r.freed))
    /\ UNCHANGED <<limit, fatal>>

ReleaseText(v) ==
    /\ Running
    /\ v \in owned \cup {EmptyString}
    /\ v.kind = "string"
    /\ UNCHANGED limit
    /\ IF v.len = 0
       THEN /\ heap' = Dealloc(heap, DropFrees(v))
            /\ owned' = owned \ {v}
            /\ last' = Call("release_text", v.ptr, 0, <<>>, FALSE,
                            Null, 0, <<>>, "", TRUE, 0, Cardinality(DropFrees(v)))
            /\ UNCHANGED <<handles, fatal>>
       ELSE IF ~CanAlloc(v.len)
       THEN \* Box::from(&[u8]) cannot allocate: handle_alloc_error aborts
            /\ Dies("alloc failure")
            /\ last' = Call("release_text", v.ptr, v.len, Content(v), FALSE,
                            Null, 0, <<>>, "", TRUE, 1, 0)
       ELSE \E a \in FreeAddrs :
            LET copied == [heap EXCEPT ![a] = Block(Content(v))]
                r == IntoBoxedByteSliceRaw(Value("box", a, v.len, v.len))
                h == Handle(r.ptr, r.len, "release_text", Content(v))
                freed == r.freed \cup DropFrees(v)
            IN  /\ heap' = Dealloc(copied, freed)
                /\ owned' = owned \ {v}
                /\ handles' = Hold(handles, h)
                /\ last' = Call("release_text", v.ptr, v.len, Content(v), FALSE,
                                r.ptr, r.len, <<>>, "", TRUE, 1, Cardinality(freed))
                /\ UNCHANGED fatal

----------------------------------------------------------------------------
(* from_boxed_byte_slice_raw and string_from_boxed_byte_slice_raw *)

\* a (pointer, 0) pair the host makes up: a reclaim of length 0 takes any pointer
ZeroLenPairs == {Handle(p, 0, "host", <<>>) : p \in Ptr}

\* as FromBoxedByteSliceRaw, with the test of the length inverted
FromRawInverted(slice_ptr, length) ==
    IF length # 0 THEN EmptyBox ELSE Value("box", slice_ptr, length, length)

\* the Box the pair becomes.  With length > 0 and a pointer that is no live
\* allocation of that length the Box is invalid (undefined behaviour)
FromBoxedByteSliceRaw(slice_ptr, length) ==
    IF length = 0 THEN EmptyBox ELSE Value("box", slice_ptr, length, length)

ReclaimBuffer(h) ==
    /\ Running
    /\ h.len > 0 => h \in handles
    /\ LET b == FromBoxedByteSliceRaw(h.ptr, h.len)
       IN  /\ owned' = Own(owned, b)
           /\ last' = Call("reclaim_buffer", h.ptr, h.len, h.src, FALSE,
                           b.ptr, b.len, Content(b), h.from, h.clean, 0, 0)
    /\ handles' = handles \ {h}
    /\ UNCHANGED <<heap, limit, fatal>>

\* as TextOf, with str.trim_start() for str.trim()
TextOfTrimStart(str, trim) ==
    IF trim THEN SubSeq(str, TrimStartIdx(str, 1), Len(str)) ELSE str

\* the text returned: str.trim() or str
TextOf(str, trim) == IF trim THEN Trim(str) ELSE str

\* as FreedOnReturn, with the Box<str> leaked
FreedOnReturnLeak(slice, text) == {}

\* as FreedOnReturn, with the Box<str> leaked when the text is empty
FreedOnReturnUnlessEmpty(slice, text) == IF text = <<>> THEN {} ELSE DropFrees(slice)

\* the allocations freed when the call returns `text`: the Box<str> made of
\* `slice` goes out of scope
FreedOnReturn(slice, text) == DropFrees(slice)

ReclaimText(h, trim) ==
    /\ Running
    /\ h.len > 0 => h \in handles
    /\ UNCHANGED limit
    /\ IF h.len = 0
       THEN /\ last' = Call("reclaim_text", h.ptr, 0, h.src, trim,
                            Dangling, 0, <<>>, h.from, h.clean, 0, 0)
            /\ handles' = handles \ {h}
            /\ UNCHANGED <<heap, owned, fatal>>
       ELSE LET slice == FromBoxedByteSliceRaw(h.ptr, h.len)
                str == Content(slice)
                text == TextOf(str, trim)
                freed == FreedOnReturn(slice, text)
            IN  IF slice.ptr \notin LiveAddrs
                THEN \* the octets are read through a pointer that is no allocation
                     /\ Dies("segfault")
                     /\ last' = Call("reclaim_text", h.ptr, h.len, h.src, trim,
                                     Null, 0, <<>>, h.from, h.clean, 0, 0)
                ELSE \* from_boxed_utf8_unchecked: the host supplies valid UTF-8
                     /\ IsUtf8(str)
                     /\ IF Len(text) = 0
                        THEN \* to_string of the empty text allocates nothing
                             /\ heap' = Dealloc(heap, freed)
                             /\ handles' = handles \ {h}
                             /\ last' = Call("reclaim_text", h.ptr, h.len, h.src, trim,
                                             Dangling, 0, <<>>, h.from, h.clean,
                                             0, Cardinality(freed))
                             /\ UNCHANGED <<owned, fatal>>
                        ELSE IF ~CanAlloc(Len(text))
                        THEN \* to_string cannot allocate: handle_alloc_error aborts
                             /\ Dies("alloc failure")
                             /\ last' = Call("reclaim_text", h.ptr, h.len, h.src, trim,
                                             Null, 0, <<>>, h.from, h.clean, 1, 0)
                        ELSE \E a \in FreeAddrs :
                             LET string == Value("string", a, Len(text), Len(text))
                                 after == Dealloc([heap EXCEPT ![a] = Block(text)], freed)
                             IN  /\ heap' = after
                                 /\ owned' = owned \cup {string}
                                 /\ handles' = handles \ {h}
                                 /\ last' = Call("reclaim_text", h.ptr, h.len, h.src, trim,
                                                 a, Len(text), ContentIn(after, string),
                                                 h.from, h.clean, 1, Cardinality(freed))
                                 /\ UNCHANGED fatal

----------------------------------------------------------------------------
(* The host: filling a buffer it holds a handle of *)

HostWrite(h, i, b) ==
    /\ Running
    /\ h \in handles
    /\ h.ptr \in LiveAddrs
    /\ i \in 1 .. h.len
    /\ heap[h.ptr].data[i] # b
    /\ heap' = [heap EXCEPT ![h.ptr].data[i] = b]
    /\ handles' = (handles \ {h}) \cup {[h EXCEPT !.clean = FALSE, !.src = <<>>]}
    /\ last' = Step("host_write")
    /\ UNCHANGED <<limit, owned, fatal>>

----------------------------------------------------------------------------
(* The protocol: any interleaving of the calls on the values and the       *)
(* handles that hold memory, from an empty heap                             *)

Next ==
    \/ \E length \in 0 .. UsizeMax : AllocateZeroed(length)
    \/ \E bytes \in Buffers : NewBox(bytes)
    \/ \E text \in Texts, cap \in 1 .. MaxLen : NewString(text, cap)
    \/ \E v \in owned : Drop(v)
    \/ \E v \in owned : ReleaseBuffer(v)
    \/ \E v \in owned : ReleaseText(v)
    \/ \E h \in handles : ReclaimBuffer(h)
    \/ \E h \in handles, trim \in BOOLEAN : ReclaimText(h, trim)
    \/ \E h \in handles, i \in 1 .. limit, b \in HostBytes : HostWrite(h, i, b)

Spec == Init /\ [][Next]_vars

----------------------------------------------------------------------------
(* The calls on empty values and on pairs of length 0, next to live and    *)
(* freed allocations                                                        *)

NextEmpty ==
    \/ \E length \in 0 .. UsizeMax : AllocateZeroed(length)
    \/ \E bytes \in Buffers : NewBox(bytes)
    \/ \E text \in Texts, cap \in 1 .. MaxLen : NewString(text, cap)
    \/ \E v \in owned : Drop(v)
    \/ \E v \in owned \cup {EmptyBox} : ReleaseBuffer(v)
    \/ \E v \in owned \cup {EmptyString} : ReleaseText(v)
    \/ \E h \in ZeroLenPairs : ReclaimBuffer(h)
    \/ \E h \in ZeroLenPairs, trim \in BOOLEAN : ReclaimText(h, trim)

SpecEmpty == Init /\ [][NextEmpty]_vars

----------------------------------------------------------------------------
(* The round trips: one buffer or one text, released and then reclaimed *)

RoundBuffers == SeqsUpTo(Byte, TextLen)

InitRound ==
    \E bytes \in RoundBuffers, kind \in {"box", "string"} :
        /\ kind = "string" => IsUtf8(bytes)
        /\ limit = 2 * TextLen
        /\ heap = [a \in Addr |->
                     IF a = HeapBase /\ bytes # <<>> THEN Block(bytes) ELSE Free]
        /\ owned = {Value(kind, IF bytes = <<>> THEN Dangling ELSE HeapBase,
                          Len(bytes), Len(bytes))}
        /\ handles = {}
        /\ fatal = "none"
        /\ last = Step("init")

\* the pair of length 0 that the last call returned, if it was a release
ReturnedPair ==
    IF last.op \in {"release_buffer", "release_text"} /\ last.outLen = 0
    THEN {Handle(last.outPtr, 0, last.op, last.inData)}
    ELSE {}

NextRound ==
    \/ \E v \in owned : ReleaseBuffer(v)
    \/ \E v \in owned : ReleaseText(v)
    \/ \E h \in handles \cup ReturnedPair : ReclaimBuffer(h)
    \/ \E h \in handles \cup ReturnedPair, trim \in BOOLEAN : ReclaimText(h, trim)

SpecRound == InitRound /\ [][NextRound]_vars

----------------------------------------------------------------------------
(* Properties *)

\* the number of managed values and raw handles whose pointer is a
Referents(a) ==
    Cardinality({v \in owned : v.ptr = a}) + Cardinality({h \in handles : h.ptr = a})

\* C1: every live allocation is owned by exactly one managed value or is
\* referred to by exactly one outstanding raw handle, never both and never
\* neither, and no freed allocation is referred to by a value or a handle.
C1_SingleOwner ==
    \A a \in Addr : IF heap[a].live THEN Referents(a) = 1 ELSE Referents(a) = 0

\* a handle has been reclaimed as a Box while another allocation is detached
C1_Witness ==
    /\ last.op = "reclaim_buffer"
    /\ last.outPtr \in LiveAddrs
    /\ \E h \in handles : h.ptr \in LiveAddrs /\ h.ptr # last.outPtr

\* C2: into_boxed_byte_slice_raw on a non-empty Box returns the Box's base
\* address and length, allocates and frees nothing, and the allocation stays
\* live with its contents as released for as long as the handle is
\* outstanding and the host has not written through it.
C2_ReleaseDetaches ==
    /\ (last.op = "release_buffer" /\ last.inLen > 0 /\ last.inPtr \in Addr) =>
          /\ last.outPtr = last.inPtr
          /\ last.outLen = last.inLen
          /\ last.allocs = 0
          /\ last.frees = 0
          /\ heap[last.inPtr].live
          /\ heap[last.inPtr].data = last.inData
    /\ \A h \in handles :
          (h.from = "release_buffer" /\ h.ptr \in Addr /\ h.clean) =>
              heap[h.ptr].live /\ heap[h.ptr].data = h.src

\* a non-empty Box has been released and its allocation is live
C2_Witness ==
    /\ last.op = "release_buffer"
    /\ last.inLen > 0
    /\ last.outPtr \in LiveAddrs
    /\ owned = {}

\* C3: when no raw handle is outstanding and no managed value holds memory
\* (every handle has been reclaimed and every value dropped), no allocation
\* is live: the net allocation count is back at zero.
C3_NoLeaks ==
    (/\ Running
     /\ \A h \in handles : h.ptr \notin Addr
     /\ \A v \in owned : ~HasAlloc(v)) => LiveAddrs = {}

\* a text was released, its handle reclaimed as text that trimmed to nothing,
\* and nothing is left
C3_Witness ==
    /\ last.op = "reclaim_text"
    /\ last.from = "release_text"
    /\ last.inLen > 0
    /\ last.frees = 1
    /\ handles = {}
    /\ owned = {}
    /\ LiveAddrs = {}

\* C4: new_boxed_byte_slice_buffer_raw never returns with an invalid pointer:
\* for every length > 0 a returned pointer is non-null and is a live
\* allocation of exactly `length` octets.
C4_ReturnsValidPointer ==
    (last.op = "allocate_zeroed" /\ last.inLen > 0 /\ Running) =>
        /\ last.outPtr \in LiveAddrs
        /\ Len(heap[last.outPtr].data) = last.inLen

\* C5: from_boxed_byte_slice_raw on the pair into_boxed_byte_slice_raw
\* returned for a Box B (the empty one included) yields a Box of the same
\* length with the same octets in the same order.
C5_ReleaseReclaimIdentity ==
    (last.op = "reclaim_buffer" /\ last.from = "release_buffer" /\ last.clean) =>
        /\ last.outLen = Len(last.inData)
        /\ last.outData = last.inData
        /\ last.outLen > 0 => Value("box", last.outPtr, last.outLen, last.outLen) \in owned

\* a Box of the greatest length whose first two octets differ made the round trip
C5_Witness ==
    /\ last.op = "reclaim_buffer"
    /\ last.from = "release_buffer"
    /\ last.outLen = TextLen
    /\ last.outData[1] # last.outData[2]

\* the code points of s
RECURSIVE CodePoints(_, _)
CodePoints(s, i) ==
    IF i > Len(s) THEN <<>>
    ELSE <<CodePoint(s, i)>> \o CodePoints(s, i + CharWidth(s[i]))

AllWhitespace(s) ==
    IsUtf8(s) /\ \A k \in 1 .. Len(CodePoints(s, 1)) : IsWhitespace(CodePoints(s, 1)[k])

\* r is t without a leading and a trailing run of whitespace, and r neither
\* starts nor ends with whitespace
IsTrimOf(r, t) ==
    /\ IsUtf8(r)
    /\ \E i \in 0 .. Len(t), j \in 0 .. Len(t) :
          /\ i + j <= Len(t)
          /\ r = SubSeq(t, i + 1, Len(t) - j)
          /\ AllWhitespace(SubSeq(t, 1, i))
          /\ AllWhitespace(SubSeq(t, Len(t) - j + 1, Len(t)))
    /\ LET cps == CodePoints(r, 1)
       IN  cps # <<>> => ~IsWhitespace(cps[1]) /\ ~IsWhitespace(cps[Len(cps)])

\* C6: string_from_boxed_byte_slice_raw on the pair
\* string_into_boxed_byte_slice_raw returned for a text T yields T verbatim
\* when trim is false, and T without its leading and trailing whitespace
\* characters (the interior kept) when trim is true.
C6_TextRoundTrip ==
    (last.op = "reclaim_text" /\ last.from = "release_text" /\ last.clean /\ Running) =>
        /\ last.outLen = Len(last.outData)
        /\ IF last.trim THEN IsTrimOf(last.outData, last.inData)
                        ELSE last.outData = last.inData

\* a text of the greatest length with whitespace on both sides was trimmed
C6_Witness ==
    /\ last.op = "reclaim_text"
    /\ last.from = "release_text"
    /\ last.trim
    /\ Len(last.inData) = TextLen
    /\ IsWhitespace(last.inData[1])
    /\ IsWhitespace(last.inData[TextLen])
    /\ last.outData # <<>>
    /\ Len(last.outData) = TextLen - 2

\* C7: for every N >= 0 the buffer obtained by
\* new_boxed_byte_slice_buffer_raw(N) and then from_boxed_byte_slice_raw(p, N),
\* with no host write in between, has length N and N zero octets.
C7_ZeroPreservation ==
    (last.op = "reclaim_buffer" /\ last.from = "allocate_zeroed" /\ last.clean) =>
        /\ last.outLen = last.inLen
        /\ last.outData = Zeros(last.inLen)

\* what C8 says of one step
C8_Step ==
    /\ (last'.op \in {"release_buffer", "release_text"} /\ fatal' = "none") =>
          IF last'.inLen = 0
          THEN last'.outPtr = Null /\ last'.outLen = 0
          ELSE last'.outPtr # Null /\ last'.outLen > 0
    /\ (last'.op = "allocate_zeroed" /\ last'.inLen = 0) =>
          last'.outPtr = Null /\ heap' = heap
    /\ (last'.op \in {"reclaim_buffer", "reclaim_text"} /\ last'.inLen = 0) =>
          /\ last'.outLen = 0
          /\ last'.outData = <<>>
          /\ last'.allocs = 0
          /\ last'.frees = 0
          /\ heap' = heap
          /\ owned' = owned
          /\ handles' = handles
          /\ fatal' = fatal

\* C8: a release returns exactly (null, 0) for an empty input and a non-null
\* pointer for a non-empty one, new_boxed_byte_slice_buffer_raw(0) returns
\* null, and a reclaim with length 0 returns the empty buffer or text for
\* every pointer (null, dangling or live) without touching the heap.
C8_NullEmptyPolicy == [][C8_Step]_vars

\* a reclaim of length 0 was given the address of a live allocation
C8_Witness ==
    /\ last.op \in {"reclaim_buffer", "reclaim_text"}
    /\ last.inLen = 0
    /\ last.inPtr \in LiveAddrs

\* C9: new_boxed_byte_slice_buffer_raw ends with the capacity-overflow panic,
\* before the allocator is called and without a pointer returned, exactly for
\* the lengths above isize::MAX (2 * length does not fit in usize).
C9_CapacityOverflow ==
    last.op = "allocate_zeroed" =>
        /\ (fatal = "capacity overflow") <=> (2 * last.inLen > UsizeMax)
        /\ fatal = "capacity overflow" =>
              last.allocs = 0 /\ last.outPtr = Null /\ last.outLen = 0

\* the smallest length that overflows was asked for
C9_Witness ==
    /\ last.op = "allocate_zeroed"
    /\ fatal = "capacity overflow"
    /\ last.inLen = IsizeMax + 1

\* C10: string_from_boxed_byte_slice_raw with length > 0 frees the handle's
\* allocation inside the call for both values of trim, also when trimming
\* yields the empty text, and the text returned lives in other storage.
C10_ReclaimTextConsumes ==
    (last.op = "reclaim_text" /\ last.inLen > 0 /\ Running) =>
        /\ last.inPtr \notin LiveAddrs
        /\ last.frees = 1
        /\ last.outPtr # last.inPtr
        /\ Referents(last.inPtr) = 0
        /\ last.outLen > 0 =>
              /\ last.outPtr \in LiveAddrs
              /\ Value("string", last.outPtr, last.outLen, last.outLen) \in owned

\* a handle of whitespace was reclaimed with trim, and the text is empty
C10_Witness ==
    /\ last.op = "reclaim_text"
    /\ last.inLen > 0
    /\ last.trim
    /\ last.outLen = 0
    /\ Running

====
